---- MODULE Spec2Model ----
(***************************************************************************)
(* scatfit: the per-sub-band fitting loop of apps/fit_frb.py (fit_profile  *)
(* and fit_profile_model) and the profile functions of pulsemodels.py.     *)
(*                                                                         *)
(* Numbers.  Python floats are modelled by exact integers and rationals:   *)
(*   - times (ms), fluences and amplitudes of the fitting loop are held in *)
(*     hundredths (sigma = 1.0 is 100, S/N 3.7 is 370);                    *)
(*   - frequencies are held in a unit in which chan_bw is an even integer, *)
(*     so that 0.5 * chan_bw is exact;                                     *)
(*   - a quotient is a record [kind, num, den] (Quot), with the IEEE       *)
(*     outcomes nan (0/0) and inf (x/0) kept apart from the finite values. *)
(* Floating-point rounding is not modelled.                                *)
(***************************************************************************)
EXTENDS Integers, Sequences, FiniteSets, TLC

(***************************************************************************)
(* Bounds of the model.                                                    *)
(***************************************************************************)
MaxBands == 2
XMax == 2

(***************************************************************************)
(* Program constants.                                                      *)
(***************************************************************************)
SnrThreshold == 370
InvKLimit == 10
ArgexpLimit == 300
WindowHalfWidth == 200
EmceeSteps == 6000
EmceeBurn == 700
EmceeThin == 20

(***************************************************************************)
(* Arithmetic helpers.                                                     *)
(***************************************************************************)
Abs(a) == IF a < 0 THEN -a ELSE a

Min(a, b) == IF a <= b THEN a ELSE b

RECURSIVE GCD(_, _)
GCD(a, b) == IF b = 0 THEN a ELSE GCD(b, a % b)

\* num / den as numpy evaluates a float division: nan for 0/0, +-inf for x/0.
Quot(num, den) ==
    IF den = 0
    THEN IF num = 0
         THEN [kind |-> "nan", num |-> 0, den |-> 0]
         ELSE [kind |-> "inf", num |-> (IF num < 0 THEN -1 ELSE 1), den |-> 0]
    ELSE LET g == GCD(Abs(num), Abs(den))
             s == IF den < 0 THEN -1 ELSE 1
         IN  [kind |-> "value", num |-> (s * num) \div g, den |-> (s * den) \div g]

RECURSIVE SumSeq(_)
SumSeq(s) == IF s = <<>> THEN 0 ELSE Head(s) + SumSeq(Tail(s))

RECURSIVE MaxSeq(_)
MaxSeq(s) == IF Len(s) = 1 THEN s[1]
             ELSE LET m == MaxSeq(Tail(s)) IN IF s[1] >= m THEN s[1] ELSE m

RECURSIVE MinSeq(_)
MinSeq(s) == IF Len(s) = 1 THEN s[1]
             ELSE LET m == MinSeq(Tail(s)) IN IF s[1] <= m THEN s[1] ELSE m

\* x[mask]: the elements of x at the indices where mask holds, in order.
RECURSIVE MaskSelect(_, _)
MaskSelect(x, mask) ==
    IF x = <<>> THEN <<>>
    ELSE (IF mask[1] THEN <<x[1]>> ELSE <<>>) \o MaskSelect(Tail(x), Tail(mask))

(***************************************************************************)
(* State.                                                                  *)
(***************************************************************************)
VARIABLES
    cand,             \* the candidate: nbands, freqs0, chan_bw, dm, dedispersed
    plot_range,       \* the caller's time axis
    fscrunch_factor,
    pc,               \* position in fit_profile
    iband,            \* loop variable of fit_profile (-1 before the loop)
    fit_range,        \* locals of fit_profile
    sub_profile,
    snr,
    cfreq,
    f_lo,
    f_hi,
    dm_smear,
    fitresult,
    df,               \* the result table, a sequence of rows
    fitresult_ml,     \* locals of fit_profile_model
    emcee_params,
    nstep,            \* sampler steps run by the emcee fit in progress
    log,              \* what has been done so far, in order
    lx,               \* a time axis handed to a function of pulsemodels.py
    lamp,             \* the amplitudes on it (<<>> for a function that takes none)
    lret              \* the last call of such a function: its arguments and result

pipe_vars == <<cand, plot_range, fscrunch_factor, pc, iband, fit_range, sub_profile, snr,
               cfreq, f_lo, f_hi, dm_smear, fitresult, df, fitresult_ml,
               emcee_params, nstep, log>>

lib_vars == <<lx, lamp, lret>>

vars == <<pipe_vars, lib_vars>>

(***************************************************************************)
(* Inputs.                                                                 *)
(***************************************************************************)
\* S/N values a sub-band can have (hundredths); nan is the S/N of a flat
\* (fully masked) sub-band, 0/0 after the normalisation.
SnrOf(v) == [nan |-> FALSE, v |-> v]

SnrNaN == [nan |-> TRUE, v |-> 0]

SnrValues == {SnrOf(300), SnrOf(369), SnrOf(370), SnrOf(400), SnrNaN}

ChanBwSet == {-2, 2}

FscrunchSet == {1, 2}

PlotRangeSet == {<<-400, -200, -100, 0, 100, 200, 400>>}

\* What a fit can return for the varying parameters, their standard errors
\* and the best-fit curve (its peak and floor), in hundredths.
FitOutcomes ==
    {[fluence |-> 480, center |-> 10, sigma |-> 150, taus |-> 250, dc |-> 10,
      err_fluence |-> 20, err_sigma |-> 5, err_taus |-> 12, peak |-> 100, floor |-> 0],
     [fluence |-> 620, center |-> -30, sigma |-> 90, taus |-> 40, dc |-> -5,
      err_fluence |-> 35, err_sigma |-> 8, err_taus |-> 3, peak |-> 80, floor |-> -10]}

\* The best-fit model curve on a window of n samples.
BestFit(o, n) == [i \in 1..n |-> IF i = (n + 1) \div 2 THEN o.peak ELSE o.floor]

(***************************************************************************)
(* Values of unbound locals.                                               *)
(***************************************************************************)
NoParams == [fluence |-> 0, center |-> 0, sigma |-> 0, taus |-> 0, taud |-> 0,
             dc |-> 0, fwhm |-> 0, fwtm |-> 0]

NoStderr == [fluence |-> 0, sigma |-> 0, taus |-> 0]

NoMlResult == [set |-> FALSE, success |-> FALSE, params |-> NoParams]

NoFitResult == [set |-> FALSE, params |-> NoParams, stderr |-> NoStderr,
                best_fit |-> <<>>, nsteps |-> 0, nsamples |-> 0]


(***************************************************************************)
(* Collaborators and pure helpers of the fitting loop.                     *)
(***************************************************************************)
\* scatfit.dm.get_dm_smearing(f_lo, f_hi, dm): the cold-plasma delay
\* difference between the two band edges, 4.148808 ms * dm * (f_lo^-2 -
\* f_hi^-2) for frequencies in GHz.  Here the frequency unit is 50 MHz and
\* the result is in hundredths of a millisecond, truncated.
get_dm_smearing(flo, fhi, dm) ==
    (165952 * dm * (fhi * fhi - flo * flo)) \div (flo * flo * fhi * fhi)

\* "2.3548200*sigma" and "4.2919320*sigma" (and gaussian_fwhm, gaussian_fwtm,
\* which compute the same constants), to five decimals.
gaussian_fwhm(sigma) == (235482 * sigma) \div 100000

gaussian_fwtm(sigma) == (429193 * sigma) \div 100000

\* if not snr >= 3.7: a nan S/N fails every comparison.
PassesSnrGate_Strict(s) == ~s.nan /\ s.v > SnrThreshold

PassesSnrGate(s) == ~s.nan /\ s.v >= SnrThreshold

\* cand.dedispersed.T[b], the time series of sub-band b, on the samples of
\* plot_range.
DedispersedRow(b) == <<0, 1, b, 6 + b, 2, 1, 0>>

\* mask = np.abs(plot_range) <= 200.0
WindowMask(x) == [i \in 1..Len(x) |-> Abs(x[i]) <= WindowHalfWidth]

\* sub_profile = cand.dedispersed.T[iband] is a view of the array;
\* sub_profile[mask] is a new array, and so are sub_profile - np.mean(...)
\* and sub_profile / np.max(...).  The result is the array as these
\* statements leave it, and the local: with n samples w in the window, of
\* sum S, (w[i] - S/n) / max(w - S/n) = (n*w[i] - S) / (n*max(w) - S).
WindowAndNormalise_InPlace(dedispersed, band, mask) ==
    LET row == dedispersed[band]
        w   == MaskSelect(row, mask)
        n   == Len(w)
        S   == SumSeq(w)
    IN  [dedispersed |->
             [dedispersed EXCEPT
                 ![band] = [i \in 1..Len(row) |-> row[i] - SumSeq(row) \div Len(row)]],
         sub_profile |-> [i \in 1..n |-> Quot(n * w[i] - S, n * MaxSeq(w) - S)]]

WindowAndNormalise(dedispersed, band, mask) ==
    LET w == MaskSelect(dedispersed[band], mask)
        n == Len(w)
        S == SumSeq(w)
    IN  [dedispersed |-> dedispersed,
         sub_profile |-> [i \in 1..n |-> Quot(n * w[i] - S, n * MaxSeq(w) - S)]]

\* mask = np.abs(plot_range) <= 200.0; fit_range = np.copy(plot_range[mask])
Window(x) == MaskSelect(x, [i \in 1..Len(x) |-> Abs(x[i]) <= WindowHalfWidth])

\* cfreq = freqs[0] + (0.5 + iband) * fscrunch_factor * chan_bw
BandCfreq(freqs0, band, fscrunch, chan_bw) ==
    freqs0 + ((1 + 2 * band) * fscrunch * chan_bw) \div 2

\* f_lo = cfreq - 0.5 * np.abs(chan_bw); f_hi = cfreq + 0.5 * np.abs(chan_bw)
BandEdges_WholeSubband(cf, fscrunch, chan_bw) ==
    [lo |-> cf - (fscrunch * Abs(chan_bw)) \div 2,
     hi |-> cf + (fscrunch * Abs(chan_bw)) \div 2]

BandEdges(cf, fscrunch, chan_bw) ==
    [lo |-> cf - Abs(chan_bw) \div 2, hi |-> cf + Abs(chan_bw) \div 2]

\* model.set_param_hint(...); model.make_params(); fitparams.add("fwhm", ...)
MakeParams(smear) ==
    [fluence |-> 500, center |-> 0, sigma |-> 100, taus |-> 50, taud |-> smear,
     dc |-> 0, fwhm |-> gaussian_fwhm(100), fwtm |-> gaussian_fwtm(100)]

\* A fit moves the varying parameters; taud has vary=False and keeps its
\* value; fwhm and fwtm follow sigma through their expressions.
ApplyFit_VaryTaud(p, o) ==
    [p EXCEPT !.fluence = o.fluence, !.center = o.center, !.sigma = o.sigma,
              !.taus = o.taus, !.taud = o.taus, !.dc = o.dc,
              !.fwhm = gaussian_fwhm(o.sigma), !.fwtm = gaussian_fwtm(o.sigma)]

ApplyFit(p, o) ==
    [p EXCEPT !.fluence = o.fluence, !.center = o.center, !.sigma = o.sigma,
              !.taus = o.taus, !.dc = o.dc,
              !.fwhm = gaussian_fwhm(o.sigma), !.fwtm = gaussian_fwtm(o.sigma)]

\* emcee_params = fitresult_ml.params.copy(); emcee_params.add("__lnsigma",
\* value=np.log(0.1), min=np.log(0.001), max=np.log(2.0)), in hundredths:
\* log(0.1) = -2.30, log(0.001) = -6.91, log(2.0) = 0.69.
LnSigma == [value |-> -230, min |-> -691, max |-> 69]

WithLnSigma_Missing(p) == p

WithLnSigma(p) == ("__lnsigma" :> LnSigma) @@ p

\* if not fitresult_ml.success: raise RuntimeError(...).  Nothing catches it.
AfterLeastSquares_Continue(success) == IF success THEN "emcee" ELSE "loop"

AfterLeastSquares(success) == IF success THEN "emcee" ELSE "aborted"

\* The sampler is done when it has run all of its steps.
SamplerDone_AtBurn(n, kws) == n >= kws.burn

SamplerDone(n, kws) == n >= kws.steps

\* np.sum(best_fit[best_fit >= 0]) * np.abs(np.diff(fit_range))[0]
Fluxsum_AllSamples(best_fit, x) == SumSeq(best_fit) * Abs(x[2] - x[1])

Fluxsum(best_fit, x) ==
    SumSeq(MaskSelect(best_fit, [i \in 1..Len(best_fit) |-> best_fit[i] >= 0]))
        * Abs(x[2] - x[1])

(***************************************************************************)
(* fit_profile.                                                            *)
(***************************************************************************)
PipeInit ==
    /\ cand \in {[nbands |-> n, freqs0 |-> 20, chan_bw |-> bw, dm |-> 20,
                  dedispersed |-> [b \in 0..(n - 1) |-> DedispersedRow(b)]] :
                    n \in 0..MaxBands, bw \in ChanBwSet}
    /\ plot_range \in PlotRangeSet
    /\ fscrunch_factor \in FscrunchSet
    /\ pc = "loop"
    /\ iband = -1
    /\ fit_range = <<>>
    /\ sub_profile = <<>>
    /\ snr = SnrNaN
    /\ cfreq = 0
    /\ f_lo = 0
    /\ f_hi = 0
    /\ dm_smear = 0
    /\ fitresult = NoFitResult
    /\ df = <<>>
    /\ fitresult_ml = NoMlResult
    /\ emcee_params = NoParams
    /\ nstep = 0
    /\ log = <<>>

NoCall == [fn |-> "none"]

LibIdle ==
    /\ lx = <<>>
    /\ lamp = <<>>
    /\ lret = NoCall

\* for iband in range(nbands): window, normalise and compute the S/N.
BandStart ==
    /\ pc = "loop"
    /\ iband + 1 < cand.nbands
    /\ iband' = iband + 1
    /\ fit_range' = Window(plot_range)
    /\ LET r == WindowAndNormalise(cand.dedispersed, iband + 1, WindowMask(plot_range))
       IN  /\ cand' = [cand EXCEPT !.dedispersed = r.dedispersed]
           /\ sub_profile' = r.sub_profile
    /\ \E s \in SnrValues :
          /\ snr' = s
          /\ log' = Append(log, [ev |-> "snr", band |-> iband + 1, snr |-> s])
    /\ pc' = "gate"
    /\ UNCHANGED lib_vars
    /\ UNCHANGED <<plot_range, fscrunch_factor, cfreq, f_lo, f_hi, dm_smear,
                   fitresult, df, fitresult_ml, emcee_params, nstep>>

\* The loop is exhausted.
LoopExit ==
    /\ pc = "loop"
    /\ iband + 1 >= cand.nbands
    /\ pc' = "post"
    /\ UNCHANGED lib_vars
    /\ UNCHANGED <<cand, plot_range, sub_profile, fscrunch_factor, iband, fit_range, snr, cfreq,
                   f_lo, f_hi, dm_smear, fitresult, df, fitresult_ml, emcee_params,
                   nstep, log>>

\* if not snr >= 3.7: continue
SnrGate ==
    /\ pc = "gate"
    /\ pc' = IF PassesSnrGate(snr) THEN "smear" ELSE "loop"
    /\ UNCHANGED lib_vars
    /\ UNCHANGED <<cand, plot_range, sub_profile, fscrunch_factor, iband, fit_range, snr, cfreq,
                   f_lo, f_hi, dm_smear, fitresult, df, fitresult_ml, emcee_params,
                   nstep, log>>

\* cfreq, f_lo, f_hi and dm_smear = get_dm_smearing(f_lo * 1e-3, f_hi * 1e-3, cand.dm)
SmearLookup ==
    /\ pc = "smear"
    /\ LET cf == BandCfreq(cand.freqs0, iband, fscrunch_factor, cand.chan_bw)
           e  == BandEdges(cf, fscrunch_factor, cand.chan_bw)
           r  == get_dm_smearing(e.lo, e.hi, cand.dm)
       IN  /\ cfreq' = cf
           /\ f_lo' = e.lo
           /\ f_hi' = e.hi
           /\ dm_smear' = r
           /\ log' = Append(log, [ev |-> "smear", band |-> iband, f_lo |-> e.lo,
                                  f_hi |-> e.hi, dm |-> cand.dm, ret |-> r])
    /\ pc' = "leastsq"
    /\ UNCHANGED lib_vars
    /\ UNCHANGED <<cand, plot_range, sub_profile, fscrunch_factor, iband, fit_range, snr,
                   fitresult, df, fitresult_ml, emcee_params, nstep>>

\* fit_profile_model, to the end of the least-squares fit: the parameters are
\* made, the fit runs, and a fit that did not converge raises.
LeastSquares ==
    /\ pc = "leastsq"
    /\ \E ok \in BOOLEAN, o \in FitOutcomes :
          LET res == [set |-> TRUE, success |-> ok,
                      params |-> ApplyFit(MakeParams(dm_smear), o)]
          IN  /\ fitresult_ml' = res
              /\ emcee_params' = IF AfterLeastSquares(ok) = "emcee"
                                 THEN WithLnSigma(res.params) ELSE NoParams
              /\ pc' = AfterLeastSquares(ok)
              /\ log' = Append(log, [ev |-> "leastsq", band |-> iband, success |-> ok])
    /\ nstep' = 0
    /\ UNCHANGED lib_vars
    /\ UNCHANGED <<cand, plot_range, sub_profile, fscrunch_factor, iband, fit_range, snr, cfreq,
                   f_lo, f_hi, dm_smear, fitresult, df>>

emcee_kws == [steps |-> EmceeSteps, burn |-> EmceeBurn, thin |-> EmceeThin]

\* The emcee fit in progress: the sampler runs its next thin steps.
EmceeAdvance ==
    /\ pc = "emcee"
    /\ ~SamplerDone(nstep, emcee_kws)
    /\ nstep' = Min(nstep + emcee_kws.thin, emcee_kws.steps)
    /\ UNCHANGED lib_vars
    /\ UNCHANGED <<cand, plot_range, sub_profile, fscrunch_factor, pc, iband, fit_range, snr,
                   cfreq, f_lo, f_hi, dm_smear, fitresult, df, fitresult_ml,
                   emcee_params, log>>

\* The emcee fit returns; fit_profile_model returns its result.
EmceeFinish ==
    /\ pc = "emcee"
    /\ SamplerDone(nstep, emcee_kws)
    /\ \E o \in FitOutcomes :
          fitresult' = [set |-> TRUE,
                        params |-> ApplyFit(emcee_params, o),
                        stderr |-> [fluence |-> o.err_fluence, sigma |-> o.err_sigma,
                                    taus |-> o.err_taus],
                        best_fit |-> BestFit(o, Len(fit_range)),
                        nsteps |-> nstep,
                        nsamples |-> (nstep - emcee_kws.burn) \div emcee_kws.thin]
    /\ log' = Append(log, [ev |-> "emcee", band |-> iband, nsteps |-> nstep])
    /\ fitresult_ml' = NoMlResult
    /\ emcee_params' = NoParams
    /\ nstep' = 0
    /\ pc' = "append"
    /\ UNCHANGED lib_vars
    /\ UNCHANGED <<cand, plot_range, sub_profile, fscrunch_factor, iband, fit_range, snr, cfreq,
                   f_lo, f_hi, dm_smear, df>>

\* The profile statistics, the row, and df = pd.concat([df, temp], ignore_index=True)
AppendRecord ==
    /\ pc = "append"
    /\ LET fluxsum == Fluxsum(fitresult.best_fit, fit_range)
           weq == Quot(fluxsum, MaxSeq(fitresult.best_fit))
           temp == [band |-> iband,
                    cfreq |-> cfreq,
                    fluence |-> fitresult.params.fluence,
                    err_fluence |-> fitresult.stderr.fluence,
                    sigma |-> fitresult.params.sigma,
                    err_sigma |-> fitresult.stderr.sigma,
                    taus |-> fitresult.params.taus,
                    err_taus |-> fitresult.stderr.taus,
                    taud |-> fitresult.params.taud,
                    fluxsum |-> fluxsum,
                    weq |-> weq]
       IN  df' = Append(df, temp)
    /\ log' = Append(log, [ev |-> "append", band |-> iband])
    /\ pc' = "loop"
    /\ UNCHANGED lib_vars
    /\ UNCHANGED <<cand, plot_range, sub_profile, fscrunch_factor, iband, fit_range, snr, cfreq,
                   f_lo, f_hi, dm_smear, fitresult, fitresult_ml, emcee_params, nstep>>

\* df["fwhm"] = ..., df["err_fwhm"] = ..., df["fwtm"] = ..., df["err_fwtm"] = ...
WithWidths_SwappedErr(row) ==
    [band |-> row.band, cfreq |-> row.cfreq,
     fluence |-> row.fluence, err_fluence |-> row.err_fluence,
     sigma |-> row.sigma, err_sigma |-> row.err_sigma,
     taus |-> row.taus, err_taus |-> row.err_taus,
     taud |-> row.taud, fluxsum |-> row.fluxsum, weq |-> row.weq,
     fwhm |-> gaussian_fwhm(row.err_sigma), err_fwhm |-> gaussian_fwhm(row.sigma),
     fwtm |-> gaussian_fwtm(row.err_sigma), err_fwtm |-> gaussian_fwtm(row.sigma)]

WithWidths(row) ==
    [band |-> row.band, cfreq |-> row.cfreq,
     fluence |-> row.fluence, err_fluence |-> row.err_fluence,
     sigma |-> row.sigma, err_sigma |-> row.err_sigma,
     taus |-> row.taus, err_taus |-> row.err_taus,
     taud |-> row.taud, fluxsum |-> row.fluxsum, weq |-> row.weq,
     fwhm |-> gaussian_fwhm(row.sigma), err_fwhm |-> gaussian_fwhm(row.err_sigma),
     fwtm |-> gaussian_fwtm(row.sigma), err_fwtm |-> gaussian_fwtm(row.err_sigma)]

PostLoop ==
    /\ pc = "post"
    /\ df' = [i \in 1..Len(df) |-> WithWidths(df[i])]
    /\ pc' = "done"
    /\ UNCHANGED lib_vars
    /\ UNCHANGED <<cand, plot_range, sub_profile, fscrunch_factor, iband, fit_range, snr, cfreq,
                   f_lo, f_hi, dm_smear, fitresult, fitresult_ml, emcee_params,
                   nstep, log>>

PipeNext ==
    \/ BandStart
    \/ LoopExit
    \/ SnrGate
    \/ SmearLookup
    \/ LeastSquares
    \/ EmceeAdvance
    \/ EmceeFinish
    \/ AppendRecord
    \/ PostLoop

Init == PipeInit /\ LibIdle

Next == PipeNext

Spec == Init /\ [][Next]_vars

\* The program is single-threaded and runs whatever step is next.
FairSpec == Spec /\ WF_vars(Next)

(***************************************************************************)
(* pulsemodels.py.  A result that is a number is a Quot record; a call     *)
(* that raises has the exception's name as its kind.                       *)
(***************************************************************************)
Raised(exc) == [kind |-> exc, num |-> 0, den |-> 0]

IsError(r) == r.kind \in {"IndexError", "ValueError"}

IsNumber(r) == r.kind \in {"value", "nan", "inf"}

\* res = np.zeros(len(x)); res[np.abs(x) <= 0.5 * width] = 1.0
boxcar_Strict(x, width) ==
    [i \in 1..Len(x) |-> IF 2 * Abs(x[i]) < width THEN 1 ELSE 0]

boxcar(x, width) ==
    [i \in 1..Len(x) |-> IF 2 * Abs(x[i]) <= width THEN 1 ELSE 0]

\* np.sum(amp[amp >= 0]) * np.abs(x[0] - x[1]) / np.max(amp); x[0] and x[1]
\* are read before np.max(amp) is taken.
equivalent_width_EmptyIsZero(x, amp) ==
    IF Len(x) = 0 THEN Quot(0, 1)
    ELSE IF Len(x) < 2 THEN Raised("IndexError")
    ELSE IF Len(amp) = 0 THEN Raised("ValueError")
    ELSE Quot(SumSeq(MaskSelect(amp, [i \in 1..Len(amp) |-> amp[i] >= 0]))
                  * Abs(x[1] - x[2]),
              MaxSeq(amp))

equivalent_width(x, amp) ==
    IF Len(x) < 2 THEN Raised("IndexError")
    ELSE IF Len(amp) = 0 THEN Raised("ValueError")
    ELSE Quot(SumSeq(MaskSelect(amp, [i \in 1..Len(amp) |-> amp[i] >= 0]))
                  * Abs(x[1] - x[2]),
              MaxSeq(amp))

\* mask = amp >= level * np.max(amp); the span of x[mask] when it has more
\* than one sample, else np.abs(x[0] - x[1]).  level is in tenths.
full_width_post_AtLeastOne(x, amp, level) ==
    IF Len(amp) = 0 THEN Raised("ValueError")
    ELSE LET top == MaxSeq(amp)
             xs  == MaskSelect(x, [i \in 1..Len(amp) |-> 10 * amp[i] >= level * top])
         IN  IF Len(xs) >= 1 THEN Quot(Abs(MaxSeq(xs) - MinSeq(xs)), 1)
             ELSE IF Len(x) < 2 THEN Raised("IndexError")
             ELSE Quot(Abs(x[1] - x[2]), 1)

full_width_post(x, amp, level) ==
    IF Len(amp) = 0 THEN Raised("ValueError")
    ELSE LET top == MaxSeq(amp)
             xs  == MaskSelect(x, [i \in 1..Len(amp) |-> 10 * amp[i] >= level * top])
         IN  IF Len(xs) > 1 THEN Quot(Abs(MaxSeq(xs) - MinSeq(xs)), 1)
             ELSE IF Len(x) < 2 THEN Raised("IndexError")
             ELSE Quot(Abs(x[1] - x[2]), 1)

\* if invK >= 10.0, with invK = 1 / (taus / sigma); taus is a Quot record.
NegligibleScattering_Above(sigma, taus) == sigma * taus.den > InvKLimit * taus.num

NegligibleScattering(sigma, taus) == sigma * taus.den >= InvKLimit * taus.num

\* argexp = 0.5 * invK**2 - y * invK, then argexp[argexp >= 300.0] = 0.0
Argexp_ClampAbove(xi, center, sigma, taus) ==
    LET num == sigma * sigma * taus.den * taus.den
                   - 2 * (xi - center) * taus.den * taus.num
        den == 2 * taus.num * taus.num
    IN  IF num > ArgexpLimit * den THEN Quot(0, 1) ELSE Quot(num, den)

Argexp(xi, center, sigma, taus) ==
    LET num == sigma * sigma * taus.den * taus.den
                   - 2 * (xi - center) * taus.den * taus.num
        den == 2 * taus.num * taus.num
    IN  IF num >= ArgexpLimit * den THEN Quot(0, 1) ELSE Quot(num, den)

\* scattered_gaussian_pulse, sample by sample.  The transcendental functions
\* are kept as terms: a sample of the first branch stands for
\*     dc + gaussian_normed(x, fluence, center, sigma)
\* and a sample of the second for
\*     dc + fluence * 0.5 * invK * invsigma * exp(argexp) * erfc(-ymk / sqrt(2))
\* with ymk = y - invK.
scattered_gaussian_pulse(x, fluence, center, sigma, taus, dc) ==
    IF NegligibleScattering(sigma, taus)
    THEN [i \in 1..Len(x) |->
             [branch |-> "gaussian_normed", dc |-> dc, fluence |-> fluence,
              x |-> x[i], center |-> center, sigma |-> sigma]]
    ELSE [i \in 1..Len(x) |->
             [branch |-> "exgaussian", dc |-> dc, fluence |-> fluence,
              invK |-> Quot(sigma * taus.den, taus.num),
              invsigma |-> Quot(1, sigma),
              argexp |-> Argexp(x[i], center, sigma, taus),
              ymk |-> Quot((x[i] - center) * taus.num - sigma * sigma * taus.den,
                           sigma * taus.num)]]

\* np.geomspace(start, stop, num=num) on a grid whose common ratio is a whole
\* number; with num = 1 it is the start alone.
geomspace_Stop(start, stop, num) ==
    IF num = 1 THEN <<stop>>
    ELSE LET q == CHOOSE r \in 1..stop : start * r ^ (num - 1) = stop
         IN  [i \in 1..num |-> start * q ^ (i - 1)]

geomspace(start, stop, num) ==
    IF num = 1 THEN <<start>>
    ELSE LET q == CHOOSE r \in 1..stop : start * r ^ (num - 1) = stop
         IN  [i \in 1..num |-> start * q ^ (i - 1)]

HasGeomGrid(start, stop, num) ==
    num = 1 \/ \E r \in 1..stop : start * r ^ (num - 1) = stop

\* bandintegrated_model.  band_cfreq = 0.5 * (f_lo + f_hi); at each grid
\* frequency f the pulse is evaluated with taus * (f / band_cfreq)^-4 and
\* fluence * (f / band_cfreq)^-1.5 (kept as the term [base, ratio]) and dc = 0;
\* x[0] - x[1] is read after the profiles are summed.
bandintegrated_model(x, fluence, center, sigma, taus, dc, flo, fhi, nfreq) ==
    LET cfreqs == geomspace(flo, fhi, nfreq)
        taus_s == [i \in 1..nfreq |->
                      Quot(taus * (flo + fhi) ^ 4, (2 * cfreqs[i]) ^ 4)]
        fluence_s == [i \in 1..nfreq |->
                         [base |-> fluence, ratio |-> Quot(2 * cfreqs[i], flo + fhi)]]
        profiles == [i \in 1..nfreq |->
                        scattered_gaussian_pulse(x, fluence_s[i], center, sigma,
                                                 taus_s[i], 0)]
    IN  [kind |-> IF Len(x) < 2 THEN "IndexError" ELSE "value",
         band_cfreq |-> Quot(flo + fhi, 2),
         cfreqs |-> cfreqs,
         taus_s |-> taus_s,
         fluence_s |-> fluence_s,
         profiles |-> profiles,
         spacing |-> IF Len(x) < 2 THEN 0 ELSE Abs(x[1] - x[2]),
         fluence |-> fluence,
         dc |-> dc]

(***************************************************************************)
(* Calls of the functions of pulsemodels.py on drawn inputs.               *)
(***************************************************************************)
RECURSIVE SeqOfSet(_)
SeqOfSet(S) ==
    IF S = {} THEN <<>>
    ELSE LET m == CHOOSE a \in S : \A b \in S : a <= b
         IN  <<m>> \o SeqOfSet(S \ {m})

\* Every strictly increasing time axis on the grid -XMax..XMax: uniform ones,
\* non-uniform ones, one sample, none.
Axes == {SeqOfSet(S) : S \in SUBSET (-XMax..XMax)}

AmpValues == {-1, 1, 2}

WidthValues == 1..(2 * XMax)

LevelValues == {1, 5, 10, 12}

PulseArgs == [fluence : {5}, center : {0, 300}, sigma : {1, 2, 9, 10, 20},
              taus : {1, 2}, dc : {0, 1}]

BandArgs == [fluence : {5}, center : {0}, sigma : {2}, taus : {1, 2}, dc : {1},
             f_lo : {1, 2, 4}, f_hi : {1, 2, 4}, nfreq : {1, 2, 3}]

Rat(n) == Quot(n, 1)

LibInit ==
    /\ lx \in Axes
    /\ lamp \in [1..Len(lx) -> AmpValues] \cup {<<>>}
    /\ lret = NoCall

PipeIdle ==
    /\ cand = [nbands |-> 0, freqs0 |-> 20, chan_bw |-> 2, dm |-> 20,
               dedispersed |-> <<>>]
    /\ plot_range = <<>>
    /\ fscrunch_factor = 1
    /\ pc = "lib"
    /\ iband = -1
    /\ fit_range = <<>>
    /\ sub_profile = <<>>
    /\ snr = SnrNaN
    /\ cfreq = 0
    /\ f_lo = 0
    /\ f_hi = 0
    /\ dm_smear = 0
    /\ fitresult = NoFitResult
    /\ df = <<>>
    /\ fitresult_ml = NoMlResult
    /\ emcee_params = NoParams
    /\ nstep = 0
    /\ log = <<>>

CallBoxcarWidth ==
    /\ lamp = <<>>
    /\ \E w \in WidthValues :
          lret' = [fn |-> "boxcar", width |-> w, amp |-> boxcar(lx, w),
                   out |-> equivalent_width(lx, boxcar(lx, w))]
    /\ UNCHANGED <<pipe_vars, lx, lamp>>

CallEquivalentWidth ==
    /\ Len(lamp) = Len(lx)
    /\ lret' = [fn |-> "equivalent_width", out |-> equivalent_width(lx, lamp)]
    /\ UNCHANGED <<pipe_vars, lx, lamp>>

CallFullWidthPost ==
    /\ Len(lamp) = Len(lx)
    /\ \E level \in LevelValues :
          lret' = [fn |-> "full_width_post", level |-> level,
                   out |-> full_width_post(lx, lamp, level)]
    /\ UNCHANGED <<pipe_vars, lx, lamp>>

CallScatteredGaussianPulse ==
    /\ lamp = <<>>
    /\ \E a \in PulseArgs :
          lret' = [fn |-> "scattered_gaussian_pulse", args |-> a,
                   out |-> scattered_gaussian_pulse(lx, a.fluence, a.center, a.sigma,
                                                    Rat(a.taus), a.dc)]
    /\ UNCHANGED <<pipe_vars, lx, lamp>>

CallBandintegratedModel ==
    /\ lamp = <<>>
    /\ \E a \in BandArgs :
          /\ a.f_lo <= a.f_hi
          /\ HasGeomGrid(a.f_lo, a.f_hi, a.nfreq)
          /\ lret' = [fn |-> "bandintegrated_model", args |-> a,
                      out |-> bandintegrated_model(lx, a.fluence, a.center, a.sigma,
                                                   a.taus, a.dc, a.f_lo, a.f_hi,
                                                   a.nfreq)]
    /\ UNCHANGED <<pipe_vars, lx, lamp>>

LibNext ==
    \/ CallBoxcarWidth
    \/ CallEquivalentWidth
    \/ CallFullWidthPost
    \/ CallScatteredGaussianPulse
    \/ CallBandintegratedModel

InitLib == PipeIdle /\ LibInit

SpecLib == InitLib /\ [][LibNext]_vars


(***************************************************************************)
(* Reading the log and the table.                                          *)
(***************************************************************************)
EventsOf(kind) == SelectSeq(log, LAMBDA e : e.ev = kind)

BandsOf(s) == [i \in 1..Len(s) |-> s[i].band]

CountFor(kind, b) == Len(SelectSeq(log, LAMBDA e : e.ev = kind /\ e.band = b))

HasRow(b) == \E i \in 1..Len(df) : df[i].band = b

(***************************************************************************)
(* C1.  Once the loop has run over all sub-bands, the table holds exactly  *)
(* one row for each sub-band whose S/N was >= 3.7, in increasing band      *)
(* order, and no row for a sub-band whose S/N was below 3.7 (or nan); at   *)
(* every moment of the run each row belongs to a sub-band that passed.     *)
(***************************************************************************)
C1_RowsAreThePassedBands ==
    LET seen   == EventsOf("snr")
        passed == SelectSeq(seen, LAMBDA e : ~e.snr.nan /\ e.snr.v >= 370)
    IN  /\ \A i \in 1..Len(df) :
              /\ \E j \in 1..Len(passed) : passed[j].band = df[i].band
              /\ \A k \in 1..Len(df) : i < k => df[i].band < df[k].band
        /\ pc \in {"post", "done"} =>
              /\ BandsOf(seen) = [i \in 1..cand.nbands |-> i - 1]
              /\ BandsOf(df) = BandsOf(passed)

\* A finished run over two sub-bands, one of S/N 3.0 and one of S/N 4.0.
C1_Witness ==
    /\ pc = "done"
    /\ Len(df) = 1
    /\ \E i, j \in 1..Len(log) :
          /\ log[i].ev = "snr" /\ log[i].snr = SnrOf(300)
          /\ log[j].ev = "snr" /\ log[j].snr = SnrOf(400) /\ HasRow(log[j].band)

(***************************************************************************)
(* C2.  A least-squares fit that did not converge ends the run there: it   *)
(* is the last thing done, it was tried once, the sampler was not started  *)
(* for that sub-band, the sub-band has no row, no later sub-band was       *)
(* touched, and nothing can follow.                                        *)
(***************************************************************************)
C2_NonConvergenceAborts ==
    \A i \in 1..Len(log) :
        (log[i].ev = "leastsq" /\ ~log[i].success) =>
            /\ pc = "aborted"
            /\ i = Len(log)
            /\ log[i].band = iband
            /\ CountFor("leastsq", iband) = 1
            /\ CountFor("emcee", iband) = 0
            /\ nstep = 0
            /\ emcee_params = NoParams
            /\ ~HasRow(iband)
            /\ \A j \in 1..Len(log) : log[j].band <= iband
            /\ ~ENABLED Next

\* The first sub-band's fit fails with another sub-band still to come.
C2_Witness ==
    /\ pc = "aborted"
    /\ iband = 0
    /\ cand.nbands = 2
    /\ log[Len(log)] = [ev |-> "leastsq", band |-> 0, success |-> FALSE]

(***************************************************************************)
(* C3.  As claimed: the edges passed to the smearing calculator span the   *)
(* whole sub-band, f_hi - f_lo = fscrunch_factor * |chan_bw|, about the    *)
(* sub-band centre.                                                        *)
(***************************************************************************)
C3_EdgesSpanSubband ==
    \A i \in 1..Len(log) :
        log[i].ev = "smear" =>
            /\ log[i].f_hi - log[i].f_lo = fscrunch_factor * Abs(cand.chan_bw)
            /\ log[i].f_lo + log[i].f_hi =
                  2 * cand.freqs0 + (1 + 2 * log[i].band) * fscrunch_factor * cand.chan_bw

(***************************************************************************)
(* C3, amended.  For every sub-band that passes the gate the smearing is   *)
(* computed once, for a window one channel wide, f_hi - f_lo = |chan_bw|,  *)
(* about the sub-band centre cfreq, with the candidate's dm.               *)
(***************************************************************************)
C3_EdgesSpanOneChannel ==
    /\ \A i \in 1..Len(log) :
          log[i].ev = "smear" =>
              /\ log[i].f_hi - log[i].f_lo = Abs(cand.chan_bw)
              /\ log[i].f_lo + log[i].f_hi =
                    2 * cand.freqs0 + (1 + 2 * log[i].band) * fscrunch_factor * cand.chan_bw
              /\ log[i].dm = cand.dm
              /\ i > 1 /\ log[i - 1].ev = "snr" /\ log[i - 1].band = log[i].band
              /\ ~log[i - 1].snr.nan /\ log[i - 1].snr.v >= 370
    /\ \A i \in 1..Len(log) :
          log[i].ev = "leastsq" =>
              /\ CountFor("smear", log[i].band) = 1
              /\ log[i - 1].ev = "smear" /\ log[i - 1].band = log[i].band

\* The smearing was looked up for a sub-band of two channels.
C3_Witness ==
    /\ fscrunch_factor = 2
    /\ pc = "leastsq"
    /\ f_hi - f_lo = Abs(cand.chan_bw)
    /\ \E i \in 1..Len(log) : log[i].ev = "smear" /\ log[i].band = iband

(***************************************************************************)
(* Reading a time axis.                                                    *)
(***************************************************************************)
Steps(x) == {x[i + 1] - x[i] : i \in 1..(Len(x) - 1)}

IsUniform(x) == Len(x) >= 2 /\ Cardinality(Steps(x)) = 1

IsNonUniform(x) == Len(x) >= 3 /\ Cardinality(Steps(x)) > 1

\* The axis reaches both edges of a boxcar of width w.
ContainsBoxcar(x, w) == Len(x) >= 1 /\ 2 * x[1] <= -w /\ 2 * x[Len(x)] >= w

(***************************************************************************)
(* C4.  As claimed: the equivalent width of boxcar(x, W) on a uniform axis *)
(* that contains the boxcar is W exactly.                                  *)
(***************************************************************************)
C4_BoxcarWidthIsExact ==
    (lret.fn = "boxcar" /\ IsUniform(lx) /\ ContainsBoxcar(lx, lret.width)) =>
        lret.out = [kind |-> "value", num |-> lret.width, den |-> 1]

(***************************************************************************)
(* C4, amended.  On a uniform axis of spacing dx that contains the boxcar, *)
(* the equivalent width of boxcar(x, W) is n * dx, n being the number of   *)
(* samples with |x| <= W/2; it is nan when no sample lies in the boxcar,   *)
(* and otherwise lies in (W - dx, W + dx].                                 *)
(***************************************************************************)
C4_BoxcarWidthIsSampleCount ==
    (lret.fn = "boxcar" /\ IsUniform(lx) /\ ContainsBoxcar(lx, lret.width)) =>
        LET dx == lx[2] - lx[1]
            n  == Cardinality({i \in 1..Len(lx) : 2 * lx[i] <= lret.width
                                                   /\ 2 * lx[i] >= -lret.width})
        IN  IF n = 0
            THEN lret.out.kind = "nan"
            ELSE /\ lret.out = [kind |-> "value", num |-> n * dx, den |-> 1]
                 /\ lret.width - dx < n * dx
                 /\ n * dx <= lret.width + dx

\* A boxcar of width 2 on the axis -2, -1, 0, 1, 2: three samples, width 3.
C4_Witness ==
    /\ lret.fn = "boxcar"
    /\ lx = <<-2, -1, 0, 1, 2>>
    /\ lret.width = 2
    /\ lret.amp = <<0, 1, 1, 1, 0>>
    /\ lret.out = [kind |-> "value", num |-> 3, den |-> 1]

(***************************************************************************)
(* C5.  As claimed: with nfreq = 1 the one grid frequency is the band      *)
(* centre, and taus and fluence reach scattered_gaussian_pulse unscaled.   *)
(***************************************************************************)
C5_SingleFrequencyIsBandCentre ==
    (/\ lret.fn = "bandintegrated_model"
     /\ lret.args.nfreq = 1
     /\ lret.out.kind = "value") =>
        /\ Quot(lret.out.cfreqs[1], 1) = lret.out.band_cfreq
        /\ lret.out.taus_s[1] = Quot(lret.args.taus, 1)
        /\ lret.out.fluence_s[1].ratio = Quot(1, 1)

(***************************************************************************)
(* C5, amended.  With nfreq = 1 the one grid frequency is f_lo, and        *)
(* scattered_gaussian_pulse is evaluated with taus * (f_lo/band_cfreq)^-4  *)
(* and fluence * (f_lo/band_cfreq)^-1.5 (and dc = 0); these are the        *)
(* unscaled taus and fluence exactly when f_lo = f_hi.                     *)
(***************************************************************************)
C5_SingleFrequencyIsLowEdge ==
    (lret.fn = "bandintegrated_model" /\ lret.args.nfreq = 1) =>
        LET a == lret.args
            o == lret.out
        IN  /\ o.cfreqs = <<a.f_lo>>
            /\ o.band_cfreq = Quot(a.f_lo + a.f_hi, 2)
            /\ o.taus_s = <<Quot(a.taus * (a.f_lo + a.f_hi) ^ 4, 16 * a.f_lo ^ 4)>>
            /\ o.fluence_s = <<[base |-> a.fluence,
                                ratio |-> Quot(2 * a.f_lo, a.f_lo + a.f_hi)]>>
            /\ Len(o.profiles) = 1
            /\ o.profiles[1] = scattered_gaussian_pulse(lx, o.fluence_s[1], a.center,
                                                        a.sigma, o.taus_s[1], 0)
            /\ (o.taus_s[1] = Quot(a.taus, 1)) <=> (a.f_lo = a.f_hi)
            /\ (o.fluence_s[1].ratio = Quot(1, 1)) <=> (a.f_lo = a.f_hi)

\* One frequency on the band 1..2: the pulse is evaluated at 1, with taus
\* scaled by (3/2)^4.
C5_Witness ==
    /\ lret.fn = "bandintegrated_model"
    /\ lret.args.nfreq = 1
    /\ lret.args.f_lo = 1
    /\ lret.args.f_hi = 2
    /\ lret.args.taus = 1
    /\ lret.out.cfreqs = <<1>>
    /\ lret.out.taus_s[1] = [kind |-> "value", num |-> 81, den |-> 16]
    /\ Len(lx) >= 2

(***************************************************************************)
(* C6.  As claimed: on a non-uniform time axis or an empty profile,        *)
(* equivalent_width, full_width_post and bandintegrated_model end in an    *)
(* error and return no number.                                             *)
(***************************************************************************)
C6_MalformedInputRaises ==
    (/\ lret.fn \in {"equivalent_width", "full_width_post", "bandintegrated_model"}
     /\ (IsNonUniform(lx) \/ Len(lx) = 0)) =>
        IsError(IF lret.fn = "bandintegrated_model"
                THEN [kind |-> lret.out.kind] ELSE lret.out)

(***************************************************************************)
(* C6, amended.  On an empty profile each of the three functions raises    *)
(* (IndexError from x[0] in equivalent_width and bandintegrated_model,     *)
(* ValueError from the maximum of an empty array in full_width_post).  A   *)
(* non-uniform time axis is not detected: each function returns a number,  *)
(* computed with the spacing of the first two samples where a spacing is   *)
(* used.                                                                   *)
(***************************************************************************)
C6_OnlyEmptyInputRaises ==
    /\ (lret.fn = "equivalent_width" /\ Len(lx) = 0) => lret.out.kind = "IndexError"
    /\ (lret.fn = "full_width_post" /\ Len(lx) = 0) => lret.out.kind = "ValueError"
    /\ (lret.fn = "bandintegrated_model" /\ Len(lx) = 0) =>
           lret.out.kind = "IndexError"
    /\ (lret.fn = "equivalent_width" /\ IsNonUniform(lx)) =>
           /\ IsNumber(lret.out)
           /\ \E sum \in 0..(2 * Len(lx)), top \in AmpValues :
                 /\ \A i \in 1..Len(lamp) : lamp[i] <= top
                 /\ \E i \in 1..Len(lamp) : lamp[i] = top
                 /\ sum = SumSeq([i \in 1..Len(lamp) |->
                                     IF lamp[i] >= 0 THEN lamp[i] ELSE 0])
                 /\ lret.out.num * top = lret.out.den * sum * (lx[2] - lx[1])
    /\ (lret.fn = "full_width_post" /\ IsNonUniform(lx)) =>
           /\ lret.out.kind = "value"
           /\ lret.out.den = 1
           /\ \/ lret.out.num = lx[2] - lx[1]
              \/ \E i, j \in 1..Len(lx) : i < j /\ lret.out.num = lx[j] - lx[i]
    /\ (lret.fn = "bandintegrated_model" /\ IsNonUniform(lx)) =>
           /\ lret.out.kind = "value"
           /\ lret.out.spacing = lx[2] - lx[1]

\* equivalent_width returns a number on the axis -2, -1, 1.
C6_Witness ==
    /\ lret.fn = "equivalent_width"
    /\ lx = <<-2, -1, 1>>
    /\ lamp = <<1, 2, 1>>
    /\ lret.out = [kind |-> "value", num |-> 2, den |-> 1]

(***************************************************************************)
(* C7.  scattered_gaussian_pulse takes its branch by invK = sigma / taus:  *)
(* with invK >= 10 every sample is dc + gaussian_normed(x, fluence,        *)
(* center, sigma) and has no exponential or erfc in it; with invK < 10     *)
(* every sample is dc + fluence * 0.5 * invK * invsigma * exp(argexp) *    *)
(* erfc(-(y - invK) / sqrt(2)).                                            *)
(***************************************************************************)
C7_BranchByInvK ==
    lret.fn = "scattered_gaussian_pulse" =>
        LET a == lret.args
        IN  /\ Len(lret.out) = Len(lx)
            /\ \A i \in 1..Len(lx) :
                  IF a.sigma >= 10 * a.taus
                  THEN lret.out[i] =
                          [branch |-> "gaussian_normed", dc |-> a.dc,
                           fluence |-> a.fluence, x |-> lx[i], center |-> a.center,
                           sigma |-> a.sigma]
                  ELSE /\ lret.out[i].branch = "exgaussian"
                       /\ lret.out[i].dc = a.dc
                       /\ lret.out[i].fluence = a.fluence
                       /\ lret.out[i].invK = Quot(a.sigma, a.taus)
                       /\ lret.out[i].invsigma = Quot(1, a.sigma)
                       /\ lret.out[i].ymk =
                             Quot((lx[i] - a.center) * a.taus - a.sigma * a.sigma,
                                  a.sigma * a.taus)
                       /\ LET raw == Quot(a.sigma * a.sigma
                                              - 2 * (lx[i] - a.center) * a.taus,
                                          2 * a.taus * a.taus)
                          IN  lret.out[i].argexp \in {raw, Quot(0, 1)}

\* invK is exactly 10 (sigma 20, taus 2) and the pulse is the plain Gaussian.
C7_Witness ==
    /\ lret.fn = "scattered_gaussian_pulse"
    /\ lret.args.sigma = 20
    /\ lret.args.taus = 2
    /\ Len(lx) >= 2
    /\ \A i \in 1..Len(lx) : lret.out[i].branch = "gaussian_normed"

(***************************************************************************)
(* C8.  On an axis of at least two samples full_width_post returns the     *)
(* span max(x) - min(x) of the samples with amp >= level * max(amp) when   *)
(* two or more qualify, and the spacing |x[0] - x[1]| of the first two     *)
(* samples when one or none qualifies.                                     *)
(***************************************************************************)
C8_SpanOrFirstSpacing ==
    (lret.fn = "full_width_post" /\ Len(lx) >= 2) =>
        LET top  == CHOOSE m \in AmpValues :
                        /\ \E i \in 1..Len(lamp) : lamp[i] = m
                        /\ \A i \in 1..Len(lamp) : lamp[i] <= m
            qual == {lx[i] : i \in {k \in 1..Len(lx) : 10 * lamp[k] >= lret.level * top}}
        IN  IF Cardinality(qual) >= 2
            THEN \E lo, hi \in qual :
                    /\ \A t \in qual : lo <= t /\ t <= hi
                    /\ lret.out = [kind |-> "value", num |-> hi - lo, den |-> 1]
            ELSE lret.out = [kind |-> "value", num |-> Abs(lx[1] - lx[2]), den |-> 1]

\* No sample reaches 1.2 times the maximum: the first spacing is returned.
C8_Witness ==
    /\ lret.fn = "full_width_post"
    /\ lx = <<-2, 0, 1, 2>>
    /\ lamp = <<1, 2, 2, 1>>
    /\ lret.level = 12
    /\ lret.out = [kind |-> "value", num |-> 2, den |-> 1]

(***************************************************************************)
(* C9.  taud is held fixed through both fits: after the least-squares fit, *)
(* in the sampler's parameters, in the sampler's result and in the row,    *)
(* taud is the value the smearing calculator returned for that sub-band.   *)
(***************************************************************************)
C9_TaudIsTheSmearing ==
    /\ pc = "emcee" => /\ fitresult_ml.params.taud = dm_smear
                       /\ emcee_params.taud = dm_smear
    /\ pc = "append" => fitresult.params.taud = dm_smear
    /\ \A i \in 1..Len(df) :
          \E j \in 1..Len(log) :
              /\ log[j].ev = "smear"
              /\ log[j].band = df[i].band
              /\ df[i].taud = log[j].ret

\* A row whose varying parameters the fits moved, with a non-zero smearing.
C9_Witness ==
    /\ Len(df) = 2
    /\ df[1].taud > 0
    /\ df[1].taud # df[2].taud
    /\ df[1].sigma # MakeParams(0).sigma
    /\ df[1].taus # MakeParams(0).taus

(***************************************************************************)
(* C10.  Under fairness: a sub-band whose sampler has been started gets    *)
(* its row; every sampler run recorded took 6000 steps and kept            *)
(* (6000 - 700) / 20 samples; the run ends; and a run that ends normally   *)
(* has visited every sub-band exactly once.                                *)
(***************************************************************************)
C10_SamplerAndLoopComplete ==
    /\ \A b \in 0..MaxBands : (pc = "emcee" /\ iband = b) ~> HasRow(b)
    /\ <>(pc \in {"done", "aborted"})
    /\ [](\A i \in 1..Len(log) : log[i].ev = "emcee" => log[i].nsteps = 6000)
    /\ [](fitresult.set => fitresult.nsteps = 6000 /\ fitresult.nsamples = 265)
    /\ [](pc = "done" => \A b \in 0..(cand.nbands - 1) : CountFor("snr", b) = 1)
    /\ [](\A i \in 1..Len(log) : log[i].band < cand.nbands
                                  /\ CountFor(log[i].ev, log[i].band) = 1)

\* A finished run in which the sampler ran for two sub-bands.
C10_Witness ==
    /\ pc = "done"
    /\ cand.nbands = 2
    /\ Len(df) = 2
    /\ CountFor("emcee", 0) = 1
    /\ CountFor("emcee", 1) = 1

(***************************************************************************)
(* C11.  Within a sub-band the steps come in the order S/N gate, smearing  *)
(* lookup, least-squares fit, posterior sampling, record append, and the   *)
(* sub-bands one after the other; the sampler is started only after a      *)
(* least-squares fit that reported success, from a copy of its optimum     *)
(* with one more parameter, __lnsigma, which has a value inside finite     *)
(* bounds; the least-squares result itself does not get the parameter.     *)
(***************************************************************************)
BandSteps == <<"snr", "smear", "leastsq", "emcee", "append">>

KindsFor(b) ==
    LET s == SelectSeq(log, LAMBDA e : e.band = b)
    IN  [i \in 1..Len(s) |-> s[i].ev]

StepsDone(n) == SubSeq(BandSteps, 1, n)

C11_StepsInOrder ==
    /\ \A b \in 0..MaxBands :
          \E n \in 0..Len(BandSteps) : KindsFor(b) = StepsDone(n)
    /\ \A i \in 1..(Len(log) - 1) : log[i].band <= log[i + 1].band
    /\ \A i \in 1..Len(log) :
          log[i].ev = "smear" =>
              /\ log[i - 1].ev = "snr"
              /\ log[i - 1].band = log[i].band
              /\ PassesSnrGate(log[i - 1].snr)
    /\ \A i \in 1..Len(log) :
          log[i].ev = "emcee" =>
              /\ log[i - 1].ev = "leastsq"
              /\ log[i - 1].band = log[i].band
              /\ log[i - 1].success
    /\ pc = "gate" => KindsFor(iband) = StepsDone(1)
    /\ pc = "smear" => KindsFor(iband) = StepsDone(1)
    /\ pc = "leastsq" => KindsFor(iband) = StepsDone(2)
    /\ pc = "emcee" =>
          /\ KindsFor(iband) = StepsDone(3)
          /\ fitresult_ml.set
          /\ fitresult_ml.success
          /\ DOMAIN emcee_params = DOMAIN fitresult_ml.params \cup {"__lnsigma"}
          /\ "__lnsigma" \notin DOMAIN fitresult_ml.params
          /\ \A k \in DOMAIN fitresult_ml.params :
                emcee_params[k] = fitresult_ml.params[k]
          /\ emcee_params["__lnsigma"].min <= emcee_params["__lnsigma"].value
          /\ emcee_params["__lnsigma"].value <= emcee_params["__lnsigma"].max
    /\ pc = "append" => KindsFor(iband) = StepsDone(4)

\* The sampler about to start for the second sub-band, after a first
\* sub-band that went through all five steps.
C11_Witness ==
    /\ pc = "emcee"
    /\ nstep = 0
    /\ iband = 1
    /\ KindsFor(0) = BandSteps
    /\ fitresult_ml.success
    /\ fitresult_ml.params.sigma # MakeParams(0).sigma
    /\ emcee_params["__lnsigma"] = LnSigma

(***************************************************************************)
(* C12.  In the branch invK < 10 of scattered_gaussian_pulse the argument  *)
(* handed to exp for a sample is 0 when 0.5 * invK^2 - y * invK is 300 or  *)
(* more, and 0.5 * invK^2 - y * invK itself when it is less than 300; so   *)
(* every argument of exp is below 300.  With y * invK = (x - center)/taus  *)
(* the raw value is (sigma^2 - 2 * (x - center) * taus) / (2 * taus^2).    *)
(***************************************************************************)
C12_ArgexpClamped ==
    (lret.fn = "scattered_gaussian_pulse" /\ lret.args.sigma < 10 * lret.args.taus) =>
        \A i \in 1..Len(lx) :
            LET a == lret.args
                n == a.sigma * a.sigma - 2 * (lx[i] - a.center) * a.taus
                d == 2 * a.taus * a.taus
                arg == lret.out[i].argexp
            IN  /\ lret.out[i].branch = "exgaussian"
                /\ arg.kind = "value"
                /\ arg.num < 300 * arg.den
                /\ (n >= 300 * d) => (arg.num = 0 /\ arg.den = 1)
                /\ (n < 300 * d) => (arg.num * d = n * arg.den)

\* sigma = 2, taus = 1, center = 300 on an axis that ends with 1, 2: the raw
\* value is 301 at x = 1 and exactly 300 at x = 2, both replaced by 0.
C12_Witness ==
    /\ lret.fn = "scattered_gaussian_pulse"
    /\ lret.args.sigma = 2
    /\ lret.args.taus = 1
    /\ lret.args.center = 300
    /\ Len(lx) >= 2
    /\ lx[Len(lx)] = 2
    /\ lx[Len(lx) - 1] = 1
    /\ lret.out[Len(lx)].argexp = Quot(0, 1)
    /\ lret.out[Len(lx) - 1].argexp = Quot(0, 1)

(***************************************************************************)
(* C13.  The table only grows by rows appended in the loop.  No step but   *)
(* the record append and the post-loop step changes it.  The append keeps  *)
(* every row there is and adds one row, for the sub-band in hand; hence a  *)
(* sub-band has at most one row, and an iteration that has returned to the *)
(* head of the loop has added a row exactly when its S/N passed the gate.  *)
(* The post-loop step keeps the number of rows and every column of every   *)
(* row, and adds fwhm, err_fwhm, fwtm and err_fwtm, computed from the      *)
(* row's own sigma and err_sigma.                                          *)
(***************************************************************************)
WidthColumns == {"fwhm", "err_fwhm", "fwtm", "err_fwtm"}

LoopColumns == {"band", "cfreq", "fluence", "err_fluence", "sigma", "err_sigma",
                "taus", "err_taus", "taud", "fluxsum", "weq"}

C13_TableAppendOnly ==
    /\ [][/\ pc \notin {"append", "post"} => df' = df
          /\ pc = "append" =>
                /\ Len(df') = Len(df) + 1
                /\ \A i \in 1..Len(df) : df'[i] = df[i]
                /\ df'[Len(df')].band = iband
                /\ DOMAIN df'[Len(df')] = LoopColumns
          /\ pc = "post" =>
                /\ Len(df') = Len(df)
                /\ \A i \in 1..Len(df) :
                      /\ DOMAIN df'[i] = DOMAIN df[i] \cup WidthColumns
                      /\ \A k \in DOMAIN df[i] : df'[i][k] = df[i][k]
                      /\ df'[i].fwhm = gaussian_fwhm(df[i].sigma)
                      /\ df'[i].err_fwhm = gaussian_fwhm(df[i].err_sigma)
                      /\ df'[i].fwtm = gaussian_fwtm(df[i].sigma)
                      /\ df'[i].err_fwtm = gaussian_fwtm(df[i].err_sigma)]_vars
    /\ [](\A i \in 1..(Len(df) - 1) : df[i].band < df[i + 1].band)
    /\ []((pc = "loop" /\ iband >= 0) => (HasRow(iband) <=> PassesSnrGate(snr)))
    /\ [](pc # "done" => \A i \in 1..Len(df) : DOMAIN df[i] = LoopColumns)

\* A finished run of two sub-bands: the first was skipped, the second has
\* its row, with the four width columns.
C13_Witness ==
    /\ pc = "done"
    /\ cand.nbands = 2
    /\ Len(df) = 1
    /\ df[1].band = 1
    /\ WidthColumns \subseteq DOMAIN df[1]
    /\ df[1].fwhm # df[1].err_fwhm

(***************************************************************************)
(* C14.  The row appended for a sub-band holds, as fluxsum, the sum of the *)
(* non-negative samples of the best-fit curve times the sample spacing of  *)
(* the fit window, and as weq that sum divided by the curve's maximum,     *)
(* which is what equivalent_width(fit_range, best_fit) returns.            *)
(***************************************************************************)
C14_RecordAgreesWithEquivalentWidth ==
    (pc \in {"loop", "post", "done"} /\ iband >= 0 /\ HasRow(iband)) =>
        LET row == df[Len(df)]
            bf  == fitresult.best_fit
            dx  == Abs(fit_range[1] - fit_range[2])
        IN  /\ row.band = iband
            /\ Len(bf) = Len(fit_range)
            /\ row.fluxsum = SumSeq(SelectSeq(bf, LAMBDA v : v >= 0)) * dx
            /\ row.weq = Quot(row.fluxsum, MaxSeq(bf))
            /\ row.weq = equivalent_width(fit_range, bf)
            /\ IsNumber(row.weq)

\* A row for a best-fit curve with negative samples: peak 80 and floor -10
\* on a window of spacing 100 give fluxsum 8000 and weq 100.
C14_Witness ==
    /\ pc = "loop"
    /\ iband >= 0
    /\ HasRow(iband)
    /\ \E i \in 1..Len(fitresult.best_fit) : fitresult.best_fit[i] < 0
    /\ df[Len(df)].fluxsum = 8000
    /\ df[Len(df)].weq = Quot(100, 1)

(***************************************************************************)
(* C15.  fit_profile leaves its inputs as they were: no step changes the   *)
(* caller's time axis or the candidate, whose dedispersed array holds the  *)
(* values it was given for every sub-band, processed or not; the fit       *)
(* window of every sub-band is the part of that time axis within 200 ms of *)
(* zero, and the profile fitted is a normalised copy of the sub-band's     *)
(* samples in the window.                                                  *)
(***************************************************************************)
C15_InputsUnchanged ==
    /\ [][cand' = cand /\ plot_range' = plot_range]_vars
    /\ [](\A b \in 0..(cand.nbands - 1) : cand.dedispersed[b] = DedispersedRow(b))
    /\ [](plot_range \in PlotRangeSet)
    /\ [](iband >= 0 =>
            /\ fit_range = SelectSeq(plot_range, LAMBDA t : t >= -200 /\ t <= 200)
            /\ Len(sub_profile) = Len(fit_range)
            /\ \E i \in 1..Len(sub_profile) : sub_profile[i] = Quot(1, 1)
            /\ \A i \in 1..Len(sub_profile) :
                  sub_profile[i].num <= sub_profile[i].den)

\* The second of two sub-bands has been windowed and normalised, after a
\* first that was skipped; the local profile is not the array's row.
C15_Witness ==
    /\ iband = 1
    /\ pc = "gate"
    /\ df = <<>>
    /\ ~PassesSnrGate(log[1].snr)
    /\ Len(sub_profile) = 5
    /\ sub_profile[3] = Quot(1, 1)
    /\ sub_profile[1] = Quot(-7, 23)
    /\ cand.dedispersed[1] = DedispersedRow(1)

====
